---- MODULE Spec2Model ----
(***************************************************************************)
(* Sensafe backend: request handlers over a relational store.              *)
(*                                                                         *)
(* The store (PostgreSQL behind Prisma) is modelled by one variable per    *)
(* table, holding the committed rows.  Every handler is split at its       *)
(* awaits: one action per store round trip, so that two requests           *)
(* interleave exactly where the event loop lets them.  Rows written inside *)
(* prisma.$transaction are kept in the request's own buffer (loc[p].tx)    *)
(* and reach the tables only at commit.                                    *)
(*                                                                         *)
(* Time is counted in hours.  Ids (uuid()/cuid() defaults) are drawn from  *)
(* one increasing counter, so an id is never reused.                       *)
(*                                                                         *)
(* The store outlives the process, so a behaviour starts from one of a few *)
(* stores the schema admits: the empty one, one holding a PARENT account,  *)
(* and one holding a PARENT and a PATIENT account.                         *)
(*                                                                         *)
(* Request bodies range over type-correct values only (well-formed e-mail  *)
(* addresses, passwords of six characters or more, names of two or more):  *)
(* what is enumerated is the presence of the optional fields, the record   *)
(* type, and the values the handlers branch on.                            *)
(***************************************************************************)
EXTENDS Integers, Sequences, FiniteSets, TLC

VARIABLES
    users,          \* table "User"
    devices,        \* table "Device"
    geolocations,   \* table "Geolocation"
    relationships,  \* table "ParentPatientRelationship"
    sessions,       \* table "UserSession"
    preferences,    \* table "UserPreferences"
    serialUnique,   \* whether the index "Device_serialNumber_key" is in force
    nextId,         \* next fresh id
    now,            \* clock, in hours
    jar,            \* tokens the service has handed out in Set-Cookie
    pc,             \* per request slot: where its handler stands
    req,            \* per request slot: the request being served
    loc,            \* per request slot: the handler's local variables
    res             \* per request slot: the response sent

store == <<users, devices, geolocations, relationships, sessions, preferences>>
vars == <<users, devices, geolocations, relationships, sessions, preferences,
          serialUnique, nextId, now, jar, pc, req, loc, res>>

----------------------------------------------------------------------------
(* Bounds of the model *)

MaxId == 4
MaxNow == 48

Procs == {"r1", "r2"}

----------------------------------------------------------------------------
(* Constants of the program *)

PARENT == "PARENT"
PATIENT == "PATIENT"

\* 24 * 60 * 60 * 1000 ms, in hours
SessionDurationH == 24
\* patient sessions last 7 times longer
PatientFactor == 7
\* jwt.sign(..., { expiresIn: '1h' })
TokenTtlH == 1

\* JavaScript undefined for an optional string field / an optional number field
Undefined == "undefined"
NoNumber == <<>>

Falsy(s) == s \in {Undefined, ""}
IsNumber(n) == Len(n) = 1

----------------------------------------------------------------------------
(* Rows the store may hold before the first request *)

bcryptHash(password) == <<"bcrypt", password>>

\* faulty variant: a comparison that accepts every password
bcryptCompareAny(password, hash) == TRUE

bcryptCompare(password, hash) == hash = bcryptHash(password)

SeedParent ==
    [id |-> 1, email |-> "parent@x.com", password |-> bcryptHash("secret1"),
     recordType |-> PARENT]
SeedPatient ==
    [id |-> 2, email |-> "patient0@x.com", password |-> bcryptHash("secret1"),
     recordType |-> PATIENT]
SeedStores == {{}, {SeedParent}, {SeedParent, SeedPatient}}
SeedIds == {SeedParent.id, SeedPatient.id}
FirstId == SeedPatient.id + 1

----------------------------------------------------------------------------
(* Lookups *)

NoRow == [id |-> 0]

\* prisma.user.findUnique({ where: { email } })
FindUserByEmail(us, email) ==
    IF \E u \in us : u.email = email
    THEN CHOOSE u \in us : u.email = email
    ELSE NoRow

\* faulty variant: a lookup that falls back to some row when the id matches none
FindUserByIdOrAny(us, id) ==
    IF \E u \in us : u.id = id
    THEN CHOOSE u \in us : u.id = id
    ELSE IF us # {} THEN CHOOSE u \in us : TRUE ELSE NoRow

\* prisma.user.findUnique({ where: { id } })
FindUserById(us, id) ==
    IF \E u \in us : u.id = id
    THEN CHOOSE u \in us : u.id = id
    ELSE NoRow

\* prisma.userSession.findUnique({ where: { id } })
FindSessionById(ss, id) ==
    IF \E s \in ss : s.id = id
    THEN CHOOSE s \in ss : s.id = id
    ELSE NoRow

----------------------------------------------------------------------------
(* Request slots *)

NoReq == [kind |-> "none"]
NoTx == [users |-> {}, devices |-> {}, geolocations |-> {},
         relationships |-> <<>>, sessions |-> {}]
NoLoc == [parentId |-> 0, userId |-> 0, newId |-> 0, deviceId |-> 0,
          user |-> NoRow, tx |-> NoTx]
NoToken == [sig |-> "none"]
NoRes == [status |-> 0, message |-> "", cookie |-> NoToken, cleared |-> FALSE,
          body |-> NoRow, logged |-> ""]

Response(status, message) ==
    [status |-> status, message |-> message, cookie |-> NoToken, cleared |-> FALSE,
     body |-> NoRow, logged |-> ""]

\* the handler returns: the response is sent, the locals (and with them an
\* open transaction's buffer) are dropped
Reply(p, r) ==
    /\ pc' = [pc EXCEPT ![p] = "done"]
    /\ res' = [res EXCEPT ![p] = r]
    /\ loc' = [loc EXCEPT ![p] = NoLoc]

Goto(p, label) == pc' = [pc EXCEPT ![p] = label]

\* jwt.sign({ email }, JWT_SECRET, { expiresIn: '1h' }): the argument becomes
\* the value of the claim "email"; the claims id, sessionId, ... of the
\* payload itself are not set
generateToken(email) ==
    [sig |-> "valid", exp |-> now + TokenTtlH, payload |-> [email |-> email]]

----------------------------------------------------------------------------
(* POST /auth/register *)

Emails == {"parent@x.com", "patient@x.com", "patient2@x.com"}
ParentEmails == {"parent@x.com", "patient0@x.com", "nobody@x.com"}
SerialNumbers == {"SN1"}
DeviceNames == {"watch"}
Latitudes == {10}
Longitudes == {20}

\* every body the validation is tried on
RegisterRequests ==
    [kind : {"register"},
     email : Emails,
     password : {"secret1"},
     recordType : {PARENT, PATIENT},
     parentEmail : {Undefined} \cup ParentEmails,
     serialNumber : {Undefined, ""} \cup SerialNumbers,
     deviceName : {Undefined, ""} \cup DeviceNames,
     latitude : {NoNumber} \cup {<<x>> : x \in Latitudes},
     longitude : {NoNumber} \cup {<<x>> : x \in Longitudes}]

\* faulty variant: the refinement that does not test the latitude
RegisterIssuesNoLatitude(data) ==
    (IF data.recordType = PATIENT /\ Falsy(data.parentEmail)
        THEN {<<"parentEmail", 34>>} ELSE {})
    \cup
    (IF data.recordType = PATIENT
        THEN (IF Falsy(data.serialNumber) THEN {<<"serialNumber", 42>>} ELSE {})
             \cup (IF ~IsNumber(data.longitude) THEN {<<"longitude", 57>>} ELSE {})
        ELSE {<<"parentEmail", 89>>})

\* the issues registerUserSchema.superRefine adds, each named by its path and
\* the source line of its ctx.addIssue
RegisterIssues(data) ==
    (IF data.recordType = PATIENT /\ Falsy(data.parentEmail)
        THEN {<<"parentEmail", 34>>} ELSE {})
    \cup
    (IF data.recordType = PATIENT
        THEN (IF Falsy(data.serialNumber) THEN {<<"serialNumber", 42>>} ELSE {})
             \cup (IF ~IsNumber(data.latitude) THEN {<<"latitude", 50>>} ELSE {})
             \cup (IF ~IsNumber(data.longitude) THEN {<<"longitude", 57>>} ELSE {})
        ELSE IF data.recordType = PARENT
        THEN (IF ~Falsy(data.parentEmail) THEN {<<"parentEmail", 66>>} ELSE {})
             \cup (IF ~Falsy(data.serialNumber) THEN {<<"serialNumber", 74>>} ELSE {})
             \cup (IF ~Falsy(data.deviceName) THEN {<<"deviceName", 82>>} ELSE {})
             \cup {<<"parentEmail", 89>>}
             \cup (IF IsNumber(data.latitude) THEN {<<"latitude", 96>>} ELSE {})
             \cup (IF IsNumber(data.longitude) THEN {<<"longitude", 103>>} ELSE {})
        ELSE {})

\* registerUserSchema.safeParse(req.body).success
RegisterValid(data) == RegisterIssues(data) = {}

\* the bodies the concurrent specification sends: the ones that pass the
\* validation, and one rejected body of each record type
CoreRegisterRequests ==
    {r \in RegisterRequests :
        \/ RegisterValid(r) /\ r.deviceName = Undefined
        \/ /\ r.parentEmail = Undefined /\ r.serialNumber = Undefined
           /\ r.deviceName = Undefined /\ r.latitude = NoNumber
           /\ r.longitude = NoNumber}

\* bodies that pass the validation with coordinates no place on Earth has:
\* latitude and longitude are z.number().optional(), without bounds
OffEarthRegisterRequests ==
    {[r EXCEPT !.latitude = <<91>>, !.longitude = <<-181>>] :
        r \in {x \in CoreRegisterRequests : RegisterValid(x)}}

\* the bodies sent next to the ingest and the latest-location query: the ones
\* that create a device, with coordinates in range and out of range
LocationRegisterRequests ==
    {r \in CoreRegisterRequests \cup OffEarthRegisterRequests :
        RegisterValid(r) /\ r.parentEmail = SeedParent.email}

RegisterBegin(p, r) ==
    /\ pc[p] = "idle"
    /\ req' = [req EXCEPT ![p] = r]
    /\ IF ~RegisterValid(r)
       THEN Reply(p, Response(400, "Validation failed"))
       ELSE /\ Goto(p, "reg_existing")
            /\ UNCHANGED <<loc, res>>
    /\ UNCHANGED <<store, serialUnique, nextId, now, jar>>

\* const existingUser = await prisma.user.findUnique({ where: { email } })
RegisterFindExisting(p) ==
    /\ pc[p] = "reg_existing"
    /\ IF FindUserByEmail(users, req[p].email).id # 0
       THEN Reply(p, Response(409, "User with this email already exists"))
       ELSE IF req[p].recordType = PATIENT
       THEN IF Falsy(req[p].parentEmail)
            THEN Reply(p, Response(400, "Parent email is required for PATIENT accounts"))
            ELSE Goto(p, "reg_parent") /\ UNCHANGED <<loc, res>>
       ELSE Goto(p, "tx_user") /\ UNCHANGED <<loc, res>>
    /\ UNCHANGED <<store, serialUnique, nextId, now, jar, req>>

\* faulty variant: the role of the resolved parent is not looked at
RegisterFindParentAnyRole(p) ==
    /\ pc[p] = "reg_parent"
    /\ LET parentUser == FindUserByEmail(users, req[p].parentEmail) IN
       IF parentUser.id = 0
       THEN Reply(p, Response(404, "Parent user with the provided email not found"))
       ELSE /\ Goto(p, "tx_user")
            /\ loc' = [loc EXCEPT ![p].parentId = parentUser.id]
            /\ UNCHANGED res
    /\ UNCHANGED <<store, serialUnique, nextId, now, jar, req>>

\* parentUser = await prisma.user.findUnique({ where: { email: parentEmail } })
RegisterFindParent(p) ==
    /\ pc[p] = "reg_parent"
    /\ LET parentUser == FindUserByEmail(users, req[p].parentEmail) IN
       IF parentUser.id = 0
       THEN Reply(p, Response(404, "Parent user with the provided email not found"))
       ELSE IF parentUser.recordType # PARENT
       THEN Reply(p, Response(400,
                "The provided parent email does not belong to a PARENT account"))
       ELSE /\ Goto(p, "tx_user")
            /\ loc' = [loc EXCEPT ![p].parentId = parentUser.id]
            /\ UNCHANGED res
    /\ UNCHANGED <<store, serialUnique, nextId, now, jar, req>>

\* what a statement of request p's open transaction reads: the committed rows
\* and the rows the transaction has written itself
TxUsers(p) == users \cup loc[p].tx.users

\* a row another open transaction has inserted under the same unique key makes
\* the insert wait until that transaction commits or rolls back
EmailPending(p, email) ==
    \E q \in Procs \ {p} : \E u \in loc[q].tx.users : u.email = email
SerialPending(p, serialNumber) ==
    \E q \in Procs \ {p} : \E d \in loc[q].tx.devices : d.serialNumber = serialNumber

TxLabels == {"tx_user", "tx_device", "tx_geolocation", "tx_relationship",
             "tx_session", "tx_commit"}

\* what the end of the transaction callback writes to a table: the rows of the
\* buffer
Commit(table, written) == table \cup written
CommitRelationships(table, written) == table \o written

\* faulty variant: register without the transaction: what was written stays written
RegisterCatchKeepsWrites(p, error, message) ==
    /\ Reply(p, [Response(500, message) EXCEPT !.logged = error])
    /\ users' = Commit(users, loc[p].tx.users)
    /\ devices' = Commit(devices, loc[p].tx.devices)
    /\ geolocations' = Commit(geolocations, loc[p].tx.geolocations)
    /\ relationships' = CommitRelationships(relationships, loc[p].tx.relationships)
    /\ sessions' = Commit(sessions, loc[p].tx.sessions)
    /\ UNCHANGED preferences

\* the catch block of register: the error is logged, the open transaction is
\* rolled back (no table changes, the buffer is dropped with the locals) and
\* 500 is sent
RegisterCatch(p, error, message) ==
    /\ Reply(p, [Response(500, message) EXCEPT !.logged = error])
    /\ UNCHANGED store

GenericMessage == "An error occurred during registration"

\* const newUser = await tx.user.create(...)
TxCreateUser(p) ==
    /\ pc[p] = "tx_user"
    /\ ~EmailPending(p, req[p].email)
    /\ IF FindUserByEmail(users, req[p].email).id # 0
       THEN /\ RegisterCatch(p, "P2002 User.email", GenericMessage)
            /\ UNCHANGED nextId
       ELSE /\ nextId <= MaxId
            /\ nextId' = nextId + 1
            /\ loc' = [loc EXCEPT
                   ![p].newId = nextId,
                   ![p].tx.users =
                       {[id |-> nextId, email |-> req[p].email,
                         password |-> bcryptHash(req[p].password),
                         recordType |-> req[p].recordType]}]
            /\ Goto(p, IF req[p].recordType = PATIENT THEN "tx_device" ELSE "tx_session")
            /\ UNCHANGED <<res, store>>
    /\ UNCHANGED <<serialUnique, now, jar, req>>

\* the guard on the patient fields, then const newDevice = await tx.device.create(...)
TxCreateDevice(p) ==
    /\ pc[p] = "tx_device"
    /\ IF \/ Falsy(req[p].serialNumber)
          \/ ~IsNumber(req[p].latitude)
          \/ ~IsNumber(req[p].longitude)
       THEN RegisterCatch(p, "missing patient data",
              "Internal Server Error: Missing required patient device or location data after validation.")
       ELSE /\ ~(serialUnique /\ SerialPending(p, req[p].serialNumber))
            /\ IF serialUnique /\ \E d \in devices : d.serialNumber = req[p].serialNumber
               THEN RegisterCatch(p, "P2002 Device.serialNumber", GenericMessage)
               ELSE /\ loc' = [loc EXCEPT ![p].tx.devices =
                          {[id |-> loc[p].newId, serialNumber |-> req[p].serialNumber,
                            name |-> req[p].deviceName, patientId |-> loc[p].newId,
                            createdAt |-> now]}]
                    /\ Goto(p, "tx_geolocation")
                    /\ UNCHANGED <<res, store>>
    /\ UNCHANGED <<serialUnique, nextId, now, jar, req>>

\* await tx.geolocation.create(...)
TxCreateGeolocation(p) ==
    /\ pc[p] = "tx_geolocation"
    /\ loc' = [loc EXCEPT ![p].tx.geolocations =
           {[id |-> loc[p].newId, latitude |-> req[p].latitude[1],
             longitude |-> req[p].longitude[1], deviceId |-> loc[p].newId,
             timestamp |-> now]}]
    /\ Goto(p, "tx_relationship")
    /\ UNCHANGED <<store, serialUnique, nextId, now, jar, req, res>>

\* the trigger check_parent_patient_roles, BEFORE INSERT OR UPDATE on
\* "ParentPatientRelationship": TRUE when it returns NEW, FALSE when it raises
validate_parent_patient_role(us, parentId, patientId) ==
    LET parent_record == FindUserById(us, parentId)
        patient_record == FindUserById(us, patientId)
    IN  /\ parent_record.id # 0
        /\ patient_record.id # 0
        /\ parent_record.recordType = PARENT
        /\ patient_record.recordType = PATIENT

\* faulty variant: a table without the primary key (parentId, patientId)
RelationshipInsertNoKey(us, rels, parentId, patientId) ==
    IF ~validate_parent_patient_role(us, parentId, patientId) THEN "raised"
    ELSE "inserted"

\* the outcome of inserting the row (parentId, patientId): the trigger fires
\* first, then the primary key (parentId, patientId) is checked
RelationshipInsert(us, rels, parentId, patientId) ==
    IF ~validate_parent_patient_role(us, parentId, patientId) THEN "raised"
    ELSE IF \E i \in DOMAIN rels :
               rels[i].parentId = parentId /\ rels[i].patientId = patientId
         THEN "P2002"
    ELSE "inserted"

\* if (parentUser) await tx.parentPatientRelationship.create(...)
TxCreateRelationship(p) ==
    /\ pc[p] = "tx_relationship"
    /\ IF loc[p].parentId = 0
       THEN Goto(p, "tx_session") /\ UNCHANGED <<loc, res, store>>
       ELSE IF RelationshipInsert(TxUsers(p), relationships,
                                  loc[p].parentId, loc[p].newId) # "inserted"
       THEN RegisterCatch(p, RelationshipInsert(TxUsers(p), relationships,
                                                loc[p].parentId, loc[p].newId),
                          GenericMessage)
       ELSE /\ loc' = [loc EXCEPT ![p].tx.relationships =
                  <<[parentId |-> loc[p].parentId, patientId |-> loc[p].newId]>>]
            /\ Goto(p, "tx_session")
            /\ UNCHANGED <<res, store>>
    /\ UNCHANGED <<serialUnique, nextId, now, jar, req>>

\* sessionDurationMs, in hours
RegisterSessionDuration(recordType) ==
    SessionDurationH * (IF recordType = PARENT THEN 1 ELSE PatientFactor)

\* faulty variant: the session of a registration lasts a day whatever the role
TxCreateSessionFlat(p) ==
    /\ pc[p] = "tx_session"
    /\ loc' = [loc EXCEPT ![p].tx.sessions =
           {[id |-> loc[p].newId, userId |-> loc[p].newId,
             expiresAt |-> now + SessionDurationH]}]
    /\ Goto(p, "tx_commit")
    /\ UNCHANGED <<store, serialUnique, nextId, now, jar, req, res>>

\* const newSession = await tx.userSession.create(...)
TxCreateSession(p) ==
    /\ pc[p] = "tx_session"
    /\ loc' = [loc EXCEPT ![p].tx.sessions =
           {[id |-> loc[p].newId, userId |-> loc[p].newId,
             expiresAt |-> now + RegisterSessionDuration(req[p].recordType)]}]
    /\ Goto(p, "tx_commit")
    /\ UNCHANGED <<store, serialUnique, nextId, now, jar, req, res>>

\* the transaction commits; then generateToken and the 201 response
RegisterCommit(p) ==
    /\ pc[p] = "tx_commit"
    /\ users' = Commit(users, loc[p].tx.users)
    /\ devices' = Commit(devices, loc[p].tx.devices)
    /\ geolocations' = Commit(geolocations, loc[p].tx.geolocations)
    /\ relationships' = CommitRelationships(relationships, loc[p].tx.relationships)
    /\ sessions' = Commit(sessions, loc[p].tx.sessions)
    /\ LET newUser == CHOOSE u \in loc[p].tx.users : TRUE
           newSession == CHOOSE s \in loc[p].tx.sessions : TRUE
           token == generateToken([id |-> newUser.id, email |-> newUser.email,
                                   recordType |-> newUser.recordType,
                                   sessionId |-> newSession.id,
                                   expiresAt |-> newSession.expiresAt])
       IN  /\ Reply(p, [Response(201, "User registered successfully")
                            EXCEPT !.cookie = token])
           /\ jar' = jar \cup {token}
    /\ UNCHANGED <<preferences, serialUnique, nextId, now, req>>

\* the transaction has committed and generateToken throws (jwt.sign without
\* JWT_SECRET: "secretOrPrivateKey must have a value"): the catch block
\* answers 500
RegisterTokenFailure(p) ==
    /\ pc[p] = "tx_commit"
    /\ users' = Commit(users, loc[p].tx.users)
    /\ devices' = Commit(devices, loc[p].tx.devices)
    /\ geolocations' = Commit(geolocations, loc[p].tx.geolocations)
    /\ relationships' = CommitRelationships(relationships, loc[p].tx.relationships)
    /\ sessions' = Commit(sessions, loc[p].tx.sessions)
    /\ Reply(p, [Response(500, GenericMessage)
                    EXCEPT !.logged = "secretOrPrivateKey must have a value"])
    /\ UNCHANGED <<preferences, serialUnique, nextId, now, jar, req>>

\* a statement of the transaction fails in the store (connection lost,
\* transaction timeout): the callback throws and the transaction is rolled back
TxStoreFailure(p) ==
    /\ pc[p] \in TxLabels
    /\ RegisterCatch(p, "store failure", GenericMessage)
    /\ UNCHANGED <<serialUnique, nextId, now, jar, req>>

----------------------------------------------------------------------------
(* POST /auth/login *)

LoginEmails == {"parent@x.com", "patient@x.com", "patient2@x.com"}
Passwords == {"secret1", "secret2"}
LoginRequests == [kind : {"login"}, email : LoginEmails, password : Passwords]

LoginBegin(p, r) ==
    /\ pc[p] = "idle"
    /\ req' = [req EXCEPT ![p] = r]
    /\ Goto(p, "login_find")
    /\ UNCHANGED <<store, serialUnique, nextId, now, jar, loc, res>>

\* const user = await prisma.user.findUnique({ where: { email } }), and the
\* comparison of the password with the stored hash
LoginFindUser(p) ==
    /\ pc[p] = "login_find"
    /\ LET user == FindUserByEmail(users, req[p].email) IN
       IF user.id = 0 \/ ~bcryptCompare(req[p].password, user.password)
       THEN Reply(p, Response(401, "Invalid email or password"))
       ELSE /\ loc' = [loc EXCEPT ![p].userId = user.id]
            /\ Goto(p, "login_session")
            /\ UNCHANGED res
    /\ UNCHANGED <<store, serialUnique, nextId, now, jar, req>>

\* faulty variant: a login that replaces the sessions of the user by the new one
LoginCreateSessionReplacing(p) ==
    /\ pc[p] = "login_session"
    /\ nextId <= MaxId
    /\ nextId' = nextId + 1
    /\ LET user == FindUserById(users, loc[p].userId)
           newSession == [id |-> nextId, userId |-> loc[p].userId,
                          expiresAt |-> now + SessionDurationH]
           token == generateToken([id |-> loc[p].userId, email |-> user.email,
                                   recordType |-> user.recordType,
                                   sessionId |-> newSession.id,
                                   expiresAt |-> newSession.expiresAt])
       IN  /\ sessions' = {s \in sessions : s.userId # loc[p].userId} \cup {newSession}
           /\ Reply(p, [Response(200, "User logged in successfully")
                            EXCEPT !.cookie = token])
           /\ jar' = jar \cup {token}
    /\ UNCHANGED <<users, devices, geolocations, relationships, preferences,
                   serialUnique, now, req>>

\* const newSession = await prisma.userSession.create(...), generateToken
\* and the 200 response
LoginCreateSession(p) ==
    /\ pc[p] = "login_session"
    /\ IF FindUserById(users, loc[p].userId).id = 0
       THEN \* the user row is gone: foreign key violation
            /\ Reply(p, Response(500, "An error occurred during login"))
            /\ UNCHANGED <<sessions, nextId, jar>>
       ELSE /\ nextId <= MaxId
            /\ nextId' = nextId + 1
            /\ LET user == FindUserById(users, loc[p].userId)
                   newSession == [id |-> nextId, userId |-> user.id,
                                  expiresAt |-> now + SessionDurationH]
                   token == generateToken([id |-> user.id, email |-> user.email,
                                           recordType |-> user.recordType,
                                           sessionId |-> newSession.id,
                                           expiresAt |-> newSession.expiresAt])
               IN  /\ sessions' = sessions \cup {newSession}
                   /\ Reply(p, [Response(200, "User logged in successfully")
                                    EXCEPT !.cookie = token])
                   /\ jar' = jar \cup {token}
    /\ UNCHANGED <<users, devices, geolocations, relationships, preferences,
                   serialUnique, now, req>>

----------------------------------------------------------------------------
(* POST /r : createRelationship *)

\* the well-formed uuids a request may name: the seeded accounts and the first
\* account registered (which may not exist yet)
RequestIds == 1..FirstId
RelationshipRequests ==
    [kind : {"createRelationship"}, parentId : RequestIds, patientId : RequestIds]

CreateRelationshipBegin(p, r) ==
    /\ pc[p] = "idle"
    /\ req' = [req EXCEPT ![p] = r]
    /\ IF r.parentId = r.patientId
       THEN Reply(p, Response(400, "Parent ID and Patient ID cannot be the same."))
       ELSE Goto(p, "rel_find") /\ UNCHANGED <<loc, res>>
    /\ UNCHANGED <<store, serialUnique, nextId, now, jar>>

\* faulty variant: the role of the parent is not looked at
CreateRelationshipFindAnyParent(p) ==
    /\ pc[p] = "rel_find"
    /\ LET parentUser == FindUserById(users, req[p].parentId)
           patientUser == FindUserById(users, req[p].patientId)
       IN  IF parentUser.id = 0
           THEN Reply(p, Response(404, "User (parent) not found."))
           ELSE IF patientUser.id = 0
           THEN Reply(p, Response(404, "User (patient) not found."))
           ELSE IF patientUser.recordType # PATIENT
           THEN Reply(p, Response(400, "User is not of type PATIENT."))
           ELSE Goto(p, "rel_create") /\ UNCHANGED <<loc, res>>
    /\ UNCHANGED <<store, serialUnique, nextId, now, jar, req>>

\* faulty variant: a parent that is not a PARENT is made one
CreateRelationshipFindPromoting(p) ==
    /\ pc[p] = "rel_find"
    /\ LET parentUser == FindUserById(users, req[p].parentId)
           patientUser == FindUserById(users, req[p].patientId)
       IN  IF parentUser.id = 0
           THEN Reply(p, Response(404, "User (parent) not found.")) /\ UNCHANGED users
           ELSE IF patientUser.id = 0
           THEN Reply(p, Response(404, "User (patient) not found.")) /\ UNCHANGED users
           ELSE IF patientUser.recordType # PATIENT
           THEN Reply(p, Response(400, "User is not of type PATIENT.")) /\ UNCHANGED users
           ELSE /\ users' = {IF u.id = parentUser.id
                             THEN [u EXCEPT !.recordType = PARENT] ELSE u : u \in users}
                /\ Goto(p, "rel_create")
                /\ UNCHANGED <<loc, res>>
    /\ UNCHANGED <<devices, geolocations, relationships, sessions, preferences,
                   serialUnique, nextId, now, jar, req>>

\* the two findUnique of Promise.all and the checks on their results
CreateRelationshipFind(p) ==
    /\ pc[p] = "rel_find"
    /\ LET parentUser == FindUserById(users, req[p].parentId)
           patientUser == FindUserById(users, req[p].patientId)
       IN  IF parentUser.id = 0
           THEN Reply(p, Response(404, "User (parent) not found."))
           ELSE IF patientUser.id = 0
           THEN Reply(p, Response(404, "User (patient) not found."))
           ELSE IF parentUser.recordType # PARENT
           THEN Reply(p, Response(400, "User is not of type PARENT."))
           ELSE IF patientUser.recordType # PATIENT
           THEN Reply(p, Response(400, "User is not of type PATIENT."))
           ELSE Goto(p, "rel_create") /\ UNCHANGED <<loc, res>>
    /\ UNCHANGED <<store, serialUnique, nextId, now, jar, req>>

\* await prisma.parentPatientRelationship.create(...) and the catch block
CreateRelationshipInsert(p) ==
    /\ pc[p] = "rel_create"
    /\ LET outcome == RelationshipInsert(users, relationships,
                                         req[p].parentId, req[p].patientId)
       IN  IF outcome = "inserted"
           THEN /\ relationships' = Append(relationships,
                       [parentId |-> req[p].parentId, patientId |-> req[p].patientId])
                /\ Reply(p, Response(201, "created"))
           ELSE IF outcome = "P2002"
           THEN /\ Reply(p, Response(409,
                        "This parent-patient relationship already exists."))
                /\ UNCHANGED relationships
           ELSE /\ Reply(p, [Response(500,
                        "An error occurred while creating the relationship.")
                            EXCEPT !.logged = outcome])
                /\ UNCHANGED relationships
    /\ UNCHANGED <<users, devices, geolocations, sessions, preferences,
                   serialUnique, nextId, now, jar, req>>

----------------------------------------------------------------------------
(* GET /r/parent/:parentId/patients : getRelationshipsByParentId *)

ByParentRequests == [kind : {"getRelationshipsByParentId"}, parentId : RequestIds]

GetRelationshipsByParentIdBegin(p, r) ==
    /\ pc[p] = "idle"
    /\ req' = [req EXCEPT ![p] = r]
    /\ Goto(p, "relp_user")
    /\ UNCHANGED <<store, serialUnique, nextId, now, jar, loc, res>>

\* const parentUser = await prisma.user.findUnique({ where: { id: parentId } })
GetRelationshipsByParentIdFindUser(p) ==
    /\ pc[p] = "relp_user"
    /\ IF FindUserById(users, req[p].parentId).id = 0
       THEN Reply(p, Response(404, "Parent user not found."))
       ELSE Goto(p, "relp_list") /\ UNCHANGED <<loc, res>>
    /\ UNCHANGED <<store, serialUnique, nextId, now, jar, req>>

\* findMany({ where: { parentId }, include: { patient } }) and the 200 response
\* with relationships.map((rel) => rel.patient)
GetRelationshipsByParentIdList(p) ==
    /\ pc[p] = "relp_list"
    /\ LET rows == SelectSeq(relationships, LAMBDA r : r.parentId = req[p].parentId)
       IN  Reply(p, [Response(200, "patients") EXCEPT
                        !.body = [list |-> [i \in DOMAIN rows |-> rows[i].patientId]]])
    /\ UNCHANGED <<store, serialUnique, nextId, now, jar, req>>

----------------------------------------------------------------------------
(* GET /r/patient/:patientId/parents : getRelationshipsByPatientId *)

ByPatientRequests == [kind : {"getRelationshipsByPatientId"}, patientId : RequestIds]

GetRelationshipsByPatientIdBegin(p, r) ==
    /\ pc[p] = "idle"
    /\ req' = [req EXCEPT ![p] = r]
    /\ Goto(p, "relq_user")
    /\ UNCHANGED <<store, serialUnique, nextId, now, jar, loc, res>>

\* const patientUser = await prisma.user.findUnique({ where: { id: patientId } })
GetRelationshipsByPatientIdFindUser(p) ==
    /\ pc[p] = "relq_user"
    /\ IF FindUserById(users, req[p].patientId).id = 0
       THEN Reply(p, Response(404, "Patient user not found."))
       ELSE Goto(p, "relq_list") /\ UNCHANGED <<loc, res>>
    /\ UNCHANGED <<store, serialUnique, nextId, now, jar, req>>

\* findMany({ where: { patientId }, include: { parent } }) and the 200 response
\* with relationships.map((rel) => rel.parent)
GetRelationshipsByPatientIdList(p) ==
    /\ pc[p] = "relq_list"
    /\ LET rows == SelectSeq(relationships, LAMBDA r : r.patientId = req[p].patientId)
       IN  Reply(p, [Response(200, "parents") EXCEPT
                        !.body = [list |-> [i \in DOMAIN rows |-> rows[i].parentId]]])
    /\ UNCHANGED <<store, serialUnique, nextId, now, jar, req>>

----------------------------------------------------------------------------
(* GET /r/:parentId/:patientId : getRelationship *)

GetRequests ==
    [kind : {"getRelationship"}, parentId : RequestIds, patientId : RequestIds]

GetRelationshipBegin(p, r) ==
    /\ pc[p] = "idle"
    /\ req' = [req EXCEPT ![p] = r]
    /\ Goto(p, "rel_get")
    /\ UNCHANGED <<store, serialUnique, nextId, now, jar, loc, res>>

\* findUnique({ where: { parentId_patientId: { parentId, patientId } } })
GetRelationshipFind(p) ==
    /\ pc[p] = "rel_get"
    /\ LET rows == SelectSeq(relationships,
                       LAMBDA r : r.parentId = req[p].parentId
                                  /\ r.patientId = req[p].patientId)
       IN  IF rows = <<>>
           THEN Reply(p, Response(404, "Relationship not found."))
           ELSE Reply(p, [Response(200, "relationship") EXCEPT !.body = rows[1]])
    /\ UNCHANGED <<store, serialUnique, nextId, now, jar, req>>

----------------------------------------------------------------------------
(* DELETE /r/:parentId/:patientId : deleteRelationship *)

DeleteRequests ==
    [kind : {"deleteRelationship"}, parentId : RequestIds, patientId : RequestIds]

DeleteRelationshipBegin(p, r) ==
    /\ pc[p] = "idle"
    /\ req' = [req EXCEPT ![p] = r]
    /\ Goto(p, "rel_delete")
    /\ UNCHANGED <<store, serialUnique, nextId, now, jar, loc, res>>

\* faulty variant: a delete keyed by the parent alone
WithoutParent(rels, parentId, patientId) ==
    SelectSeq(rels, LAMBDA r : r.parentId # parentId)

\* the table after delete({ where: { parentId_patientId: { parentId, patientId } } })
WithoutPair(rels, parentId, patientId) ==
    SelectSeq(rels, LAMBDA r : ~(r.parentId = parentId /\ r.patientId = patientId))

\* faulty variant: a delete that takes the patient of the pair with it
DeleteRelationshipDeleteWithPatient(p) ==
    /\ pc[p] = "rel_delete"
    /\ IF \E i \in DOMAIN relationships :
             /\ relationships[i].parentId = req[p].parentId
             /\ relationships[i].patientId = req[p].patientId
       THEN /\ relationships' =
                   WithoutPair(relationships, req[p].parentId, req[p].patientId)
            /\ users' = {u \in users : u.id # req[p].patientId}
            /\ Reply(p, Response(204, ""))
       ELSE /\ Reply(p, Response(404, "Relationship not found for deletion."))
            /\ UNCHANGED <<relationships, users>>
    /\ UNCHANGED <<devices, geolocations, sessions, preferences,
                   serialUnique, nextId, now, jar, req>>

\* await prisma.parentPatientRelationship.delete(...) and the catch block
DeleteRelationshipDelete(p) ==
    /\ pc[p] = "rel_delete"
    /\ IF \E i \in DOMAIN relationships :
             /\ relationships[i].parentId = req[p].parentId
             /\ relationships[i].patientId = req[p].patientId
       THEN /\ relationships' =
                   WithoutPair(relationships, req[p].parentId, req[p].patientId)
            /\ Reply(p, Response(204, ""))
       ELSE \* P2025: record to delete not found
            /\ Reply(p, Response(404, "Relationship not found for deletion."))
            /\ UNCHANGED relationships
    /\ UNCHANGED <<users, devices, geolocations, sessions, preferences,
                   serialUnique, nextId, now, jar, req>>

----------------------------------------------------------------------------
(* POST /location : createGeolocation *)

IngestRequests ==
    [kind : {"createGeolocation"}, latitude : {11, 91}, longitude : {21, -181},
     serialNumber : {"SN1", "SN9"}]

\* faulty variant: a schema without the upper bound of the latitude and the
\* lower bound of the longitude
GeolocationValidHalfBounded(data) ==
    /\ data.latitude >= -90
    /\ data.longitude <= 180
    /\ data.serialNumber # ""

\* createGeolocationSchema.safeParse(req.body).success
GeolocationValid(data) ==
    /\ data.latitude >= -90 /\ data.latitude <= 90
    /\ data.longitude >= -180 /\ data.longitude <= 180
    /\ data.serialNumber # ""

\* faulty variant: orderBy: { createdAt: 'asc' }
LeastRecentlyCreated(ds) ==
    {d \in ds : \A e \in ds : d.createdAt <= e.createdAt}

\* findFirst({ where, orderBy: { createdAt: 'desc' } }): the rows among ds of
\* greatest createdAt (the store returns any one of them)
MostRecentlyCreated(ds) ==
    {d \in ds : \A e \in ds : e.createdAt <= d.createdAt}

\* faulty variant: orderBy: { timestamp: 'asc' }
EarliestByTimestamp(gs) ==
    {g \in gs : \A h \in gs : g.timestamp <= h.timestamp}

\* findFirst({ where, orderBy: { timestamp: 'desc' } })
LatestByTimestamp(gs) ==
    {g \in gs : \A h \in gs : h.timestamp <= g.timestamp}

CreateGeolocationBegin(p, r) ==
    /\ pc[p] = "idle"
    /\ req' = [req EXCEPT ![p] = r]
    /\ IF ~GeolocationValid(r)
       THEN Reply(p, Response(400, "Validation failed"))
       ELSE Goto(p, "geo_device") /\ UNCHANGED <<loc, res>>
    /\ UNCHANGED <<store, serialUnique, nextId, now, jar>>

\* const device = await prisma.device.findFirst(...)
CreateGeolocationFindDevice(p) ==
    /\ pc[p] = "geo_device"
    /\ LET found == {d \in devices : d.serialNumber = req[p].serialNumber} IN
       IF found = {}
       THEN Reply(p, Response(404, "Device with serial number not found."))
       ELSE \E device \in MostRecentlyCreated(found) :
               /\ loc' = [loc EXCEPT ![p].deviceId = device.id]
               /\ Goto(p, "geo_create")
               /\ UNCHANGED res
    /\ UNCHANGED <<store, serialUnique, nextId, now, jar, req>>

\* const newGeolocation = await prisma.geolocation.create(...)
CreateGeolocationInsert(p) ==
    /\ pc[p] = "geo_create"
    /\ IF ~\E d \in devices : d.id = loc[p].deviceId
       THEN \* the device row is gone: foreign key violation
            /\ Reply(p, Response(500, "An error occurred while registering geolocation."))
            /\ UNCHANGED <<geolocations, nextId>>
       ELSE /\ nextId <= MaxId
            /\ nextId' = nextId + 1
            /\ LET newGeolocation ==
                       [id |-> nextId, latitude |-> req[p].latitude,
                        longitude |-> req[p].longitude, deviceId |-> loc[p].deviceId,
                        timestamp |-> now]
               IN  /\ geolocations' = geolocations \cup {newGeolocation}
                   /\ Reply(p, [Response(201, "Geolocation registered successfully")
                                    EXCEPT !.body = newGeolocation])
    /\ UNCHANGED <<users, devices, relationships, sessions, preferences,
                   serialUnique, now, jar, req>>

----------------------------------------------------------------------------
(* GET /location/latest/:patientId : getLatestGeolocationByDevice *)

LatestRequests == [kind : {"getLatestGeolocation"}, patientId : RequestIds]

LatestBegin(p, r) ==
    /\ pc[p] = "idle"
    /\ req' = [req EXCEPT ![p] = r]
    /\ Goto(p, "latest_patient")
    /\ UNCHANGED <<store, serialUnique, nextId, now, jar, loc, res>>

\* prisma.user.findUnique({ where: { id: patientId, recordType: PATIENT } })
LatestFindPatient(p) ==
    /\ pc[p] = "latest_patient"
    /\ LET patientUser == FindUserById(users, req[p].patientId) IN
       IF patientUser.id = 0 \/ patientUser.recordType # PATIENT
       THEN Reply(p, Response(404, "Patient not found."))
       ELSE Goto(p, "latest_device") /\ UNCHANGED <<loc, res>>
    /\ UNCHANGED <<store, serialUnique, nextId, now, jar, req>>

\* prisma.device.findFirst({ where: { patientId }, orderBy: { createdAt: 'desc' } })
LatestFindDevice(p) ==
    /\ pc[p] = "latest_device"
    /\ LET found == {d \in devices : d.patientId = req[p].patientId} IN
       IF found = {}
       THEN Reply(p, Response(404, "Device not found."))
       ELSE \E device \in MostRecentlyCreated(found) :
               /\ loc' = [loc EXCEPT ![p].deviceId = device.id]
               /\ Goto(p, "latest_geolocation")
               /\ UNCHANGED res
    /\ UNCHANGED <<store, serialUnique, nextId, now, jar, req>>

\* prisma.geolocation.findFirst({ where: { deviceId }, orderBy: { timestamp: 'desc' } })
LatestFindGeolocation(p) ==
    /\ pc[p] = "latest_geolocation"
    /\ LET found == {g \in geolocations : g.deviceId = loc[p].deviceId} IN
       IF found = {}
       THEN Reply(p, Response(404, "No geolocation data found for device."))
       ELSE \E latestGeolocation \in LatestByTimestamp(found) :
               Reply(p, [Response(200, "") EXCEPT !.body = latestGeolocation])
    /\ UNCHANGED <<store, serialUnique, nextId, now, jar, req>>

----------------------------------------------------------------------------
(* isLogged, the middleware in front of GET /user/preferences *)

\* decoded.<name>: the claim of that name, <<>> when the payload has none
Claim(payload, name) ==
    IF name \in DOMAIN payload THEN <<payload[name]>> ELSE <<>>

\* jwt.verify(token, jwtSecret): the signature is checked first, then exp
jwtVerify(token) ==
    IF token.sig # "valid" THEN "JsonWebTokenError"
    ELSE IF now >= token.exp THEN "TokenExpiredError"
    ELSE "decoded"

\* a token signed with JWT_SECRET whose payload carries the claims at the top
\* level, as interface JwtPayload declares them, or the same with a signature
\* that does not verify
FlatToken(sig, id, identity) ==
    [sig |-> sig, exp |-> MaxNow + TokenTtlH,
     payload |-> [id |-> id, email |-> identity.email,
                  recordType |-> identity.recordType,
                  sessionId |-> identity.sessionId]]

\* the identities the service has issued tokens for
Issued == {t.payload.email : t \in jar}

\* the values of req.cookies?.authToken tried: none, a token the service has
\* issued, a signed token with the claims of an issued one at the top level,
\* the same naming a user that never existed (id 0), and a forged one
PresentedTokens ==
    {NoToken} \cup jar
    \cup {FlatToken("valid", x.id, x) : x \in Issued}
    \cup {FlatToken("valid", 0, x) : x \in Issued}
    \cup {FlatToken("forged", x.id, x) : x \in Issued}

Unauthorized(message, clearCookie) ==
    [Response(401, message) EXCEPT !.cleared = clearCookie]

\* isLogged up to its first await, in front of the handler request r is for
IsLoggedEnter(p, r) ==
  LET token == r.token IN
    /\ pc[p] = "idle"
    /\ req' = [req EXCEPT ![p] = r]
    /\ IF token = NoToken
       THEN Reply(p, Unauthorized("Unauthorized: No token provided.", FALSE))
       ELSE IF jwtVerify(token) = "TokenExpiredError"
       THEN Reply(p, Unauthorized("Unauthorized: Token expired.", TRUE))
       ELSE IF jwtVerify(token) = "JsonWebTokenError"
       THEN Reply(p, Unauthorized("Unauthorized: Invalid token.", TRUE))
       ELSE IF Claim(token.payload, "sessionId") = <<>>
       THEN \* findUnique({ where: { id: undefined } }) is rejected by the client
            Reply(p, Unauthorized("Unauthorized.", FALSE))
       ELSE Goto(p, "mw_session") /\ UNCHANGED <<loc, res>>
    /\ UNCHANGED <<store, serialUnique, nextId, now, jar>>

\* router.get('/user/preferences', isLogged, getUserPreferences)
IsLoggedBegin(p, token) ==
    IsLoggedEnter(p, [kind |-> "getUserPreferences", token |-> token])

\* faulty variant: the stored expiry is not looked at
SessionLiveIgnoringExpiry(session) ==
    session.id # 0

\* the session row is live: it exists and its expiresAt is not before now
SessionLive(session) ==
    session.id # 0 /\ ~(session.expiresAt < now)

\* const session = await prisma.userSession.findUnique(...)
IsLoggedFindSession(p) ==
    /\ pc[p] = "mw_session"
    /\ LET decoded == req[p].token.payload
           session == FindSessionById(sessions, decoded.sessionId)
       IN  IF ~SessionLive(session)
           THEN Reply(p, Unauthorized("Unauthorized: Session expired or invalid.", TRUE))
           ELSE IF Claim(decoded, "id") = <<>>
           THEN Reply(p, Unauthorized("Unauthorized.", FALSE))
           ELSE Goto(p, "mw_user") /\ UNCHANGED <<loc, res>>
    /\ UNCHANGED <<store, serialUnique, nextId, now, jar, req>>

\* const userExists = await prisma.user.findUnique(...), req.user = ..., next()
IsLoggedFindUser(p) ==
    /\ pc[p] = "mw_user"
    /\ LET decoded == req[p].token.payload
           userExists == FindUserById(users, decoded.id)
       IN  IF userExists.id = 0
           THEN Reply(p, Unauthorized("Unauthorized: User not found.", TRUE))
           ELSE /\ loc' = [loc EXCEPT ![p].user =
                      [id |-> decoded.id, email |-> decoded.email,
                       recordType |-> decoded.recordType,
                       sessionId |-> decoded.sessionId]]
                /\ Goto(p, IF req[p].kind = "updateUserPreferences"
                           THEN "prefs_update" ELSE "prefs_get")
                /\ UNCHANGED res
    /\ UNCHANGED <<store, serialUnique, nextId, now, jar, req>>

----------------------------------------------------------------------------
(* GET /user/preferences : getUserPreferences *)

\* faulty variant: a read that finds no row inserts the row of defaults and
\* returns it
GetUserPreferencesCreatingDefault(p) ==
    /\ pc[p] = "prefs_get"
    /\ LET found == {x \in preferences : x.userId = loc[p].user.id}
           defaults == [userId |-> loc[p].user.id, fontSize |-> <<>>,
                        batterySaverLevel |-> <<>>, theme |-> <<>>,
                        language |-> <<>>, notificationsEnabled |-> <<TRUE>>]
       IN  IF found = {}
           THEN /\ preferences' = preferences \cup {defaults}
                /\ Reply(p, [Response(200, "preferences") EXCEPT !.body = defaults])
           ELSE /\ UNCHANGED preferences
                /\ Reply(p, [Response(200, "preferences")
                                EXCEPT !.body = CHOOSE x \in found : TRUE])
    /\ UNCHANGED <<users, devices, geolocations, relationships, sessions,
                   serialUnique, nextId, now, jar, req>>

GetUserPreferences(p) ==
    /\ pc[p] = "prefs_get"
    /\ LET found == {x \in preferences : x.userId = loc[p].user.id} IN
       IF found = {}
       THEN Reply(p, Response(200, "preferences: null"))
       ELSE Reply(p, [Response(200, "preferences") EXCEPT !.body = CHOOSE x \in found : TRUE])
    /\ UNCHANGED <<store, serialUnique, nextId, now, jar, req>>

----------------------------------------------------------------------------
(* PATCH /user/preferences : updateUserPreferences *)

PreferenceFields ==
    {"fontSize", "batterySaverLevel", "theme", "language", "notificationsEnabled"}

\* a string of n characters
Chars(n) == [i \in 1..n |-> "a"]

\* the values a body is tried with under each key; a value is <<v>>, null is
\* <<>>, and a key the body does not have is not in its domain.  "mapType" is
\* a key the schema does not know.
BodyKeys == PreferenceFields \cup {"mapType"}
BodyValues(key) ==
    CASE key = "fontSize" -> {<<>>, <<7>>, <<16>>, <<73>>}
      [] key = "batterySaverLevel" -> {<<-1>>, <<2>>, <<4>>}
      [] key = "theme" -> {<<Chars(4)>>, <<Chars(21)>>}
      [] key = "language" -> {<<Chars(1)>>, <<Chars(2)>>, <<Chars(11)>>}
      [] key = "notificationsEnabled" -> {<<FALSE>>}
      [] OTHER -> {<<1>>}

\* the bodies of at most two keys
UpdateBodies ==
    {<<>>}
    \cup UNION {{[k \in {k1} |-> v1] : v1 \in BodyValues(k1)} : k1 \in BodyKeys}
    \cup UNION {UNION {{[k \in {k1, k2} |-> IF k = k1 THEN v1 ELSE v2] :
                          v1 \in BodyValues(k1), v2 \in BodyValues(k2)} :
                      k2 \in BodyKeys \ {k1}} : k1 \in BodyKeys}

\* what updatePreferencesSchema accepts under a key
FieldValid(key, v) ==
    CASE key = "fontSize" -> v = <<>> \/ (v[1] >= 8 /\ v[1] <= 72)
      [] key = "batterySaverLevel" -> v = <<>> \/ (v[1] >= 0 /\ v[1] <= 3)
      [] key = "theme" -> v = <<>> \/ (Len(v[1]) >= 1 /\ Len(v[1]) <= 20)
      [] key = "language" -> v = <<>> \/ (Len(v[1]) >= 2 /\ Len(v[1]) <= 10)
      [] key = "notificationsEnabled" -> v # <<>>
      [] OTHER -> FALSE

\* faulty variant: a theme of up to 50 characters is accepted
UpdatePreferencesValidTheme50(body) ==
    /\ DOMAIN body \subseteq PreferenceFields
    /\ \A key \in DOMAIN body :
          IF key = "theme"
          THEN body[key] = <<>> \/ (Len(body[key][1]) >= 1 /\ Len(body[key][1]) <= 50)
          ELSE FieldValid(key, body[key])

\* updatePreferencesSchema.safeParse(req.body).success: .strict() rejects the
\* keys the object does not declare
UpdatePreferencesValid(body) ==
    /\ DOMAIN body \subseteq PreferenceFields
    /\ \A key \in DOMAIN body : FieldValid(key, body[key])

\* the bodies two requests in flight send
CoreUpdateBodies ==
    {b \in UpdateBodies :
        /\ UpdatePreferencesValid(b)
        /\ DOMAIN b \in {{"fontSize"}, {"theme"}}}

\* router.patch('/user/preferences', isLogged, updateUserPreferences)
UpdateUserPreferencesEnter(p, token, body) ==
    IsLoggedEnter(p, [kind |-> "updateUserPreferences", token |-> token,
                      body |-> body])

\* updateUserPreferences up to its await: the validation of the body
UpdateUserPreferencesBegin(p) ==
    /\ pc[p] = "prefs_update"
    /\ IF ~UpdatePreferencesValid(req[p].body)
       THEN Reply(p, Response(400, "Validation failed"))
       ELSE IF DOMAIN req[p].body = {}
       THEN Reply(p, Response(400, "No preference data provided."))
       ELSE Goto(p, "prefs_upsert") /\ UNCHANGED <<loc, res>>
    /\ UNCHANGED <<store, serialUnique, nextId, now, jar, req>>

\* the row create: { userId, ...preferencesData } inserts: the columns the
\* data does not name take their defaults
NewPreferences(userId, data) ==
    [userId |-> userId,
     fontSize |-> IF "fontSize" \in DOMAIN data THEN data["fontSize"] ELSE <<>>,
     batterySaverLevel |-> IF "batterySaverLevel" \in DOMAIN data
                           THEN data["batterySaverLevel"] ELSE <<>>,
     theme |-> IF "theme" \in DOMAIN data THEN data["theme"] ELSE <<>>,
     language |-> IF "language" \in DOMAIN data THEN data["language"] ELSE <<>>,
     notificationsEnabled |-> IF "notificationsEnabled" \in DOMAIN data
                              THEN data["notificationsEnabled"] ELSE <<TRUE>>]

\* the row update: { ...preferencesData } leaves: the columns the data names
\* are set, the others keep their values
MergePreferences(row, data) ==
    [column \in DOMAIN row |->
        IF column \in DOMAIN data THEN data[column] ELSE row[column]]

\* faulty variant: the update is applied to the rows of every user
UpsertEveryRow(prefs, userId, data) ==
    {MergePreferences(x, data) : x \in prefs}
    \cup (IF \E x \in prefs : x.userId = userId
          THEN {} ELSE {NewPreferences(userId, data)})

\* faulty variant: the create branch taken whether or not a row exists
UpsertAlwaysInsert(prefs, userId, data) ==
    prefs \cup {NewPreferences(userId, data)}

\* prisma.userPreferences.upsert({ where: { userId }, update, create }): one
\* INSERT ... ON CONFLICT ("userId") DO UPDATE
Upsert(prefs, userId, data) ==
    IF \E x \in prefs : x.userId = userId
    THEN {IF x.userId = userId THEN MergePreferences(x, data) ELSE x : x \in prefs}
    ELSE prefs \cup {NewPreferences(userId, data)}

\* const updatedPreferences = await prisma.userPreferences.upsert(...)
UpdateUserPreferencesUpsert(p) ==
    /\ pc[p] = "prefs_upsert"
    /\ preferences' = Upsert(preferences, loc[p].user.id, req[p].body)
    /\ LET updatedPreferences ==
               CHOOSE x \in preferences' : x.userId = loc[p].user.id
       IN  Reply(p, [Response(200, "Preferences updated successfully")
                        EXCEPT !.body = updatedPreferences])
    /\ UNCHANGED <<users, devices, geolocations, relationships, sessions,
                   serialUnique, nextId, now, jar, req>>

----------------------------------------------------------------------------
(* The environment *)

\* the client has read the response; the slot serves the next request
Reset(p) ==
    /\ pc[p] = "done"
    /\ pc' = [pc EXCEPT ![p] = "idle"]
    /\ req' = [req EXCEPT ![p] = NoReq]
    /\ res' = [res EXCEPT ![p] = NoRes]
    /\ UNCHANGED <<store, serialUnique, nextId, now, jar, loc>>

\* a day passes
Tick ==
    /\ now + SessionDurationH <= MaxNow
    /\ now' = now + SessionDurationH
    /\ UNCHANGED <<store, serialUnique, nextId, jar, pc, req, loc, res>>

\* a row a statement of an open transaction has inserted a reference to is
\* locked against deletion until the transaction ends
Referenced(userId) ==
    \E q \in Procs : \E i \in DOMAIN loc[q].tx.relationships :
        loc[q].tx.relationships[i].parentId = userId

\* revocation: a session row is deleted in the store
AdminDeleteSession ==
    /\ \E s \in sessions : sessions' = sessions \ {s}
    /\ UNCHANGED <<users, devices, geolocations, relationships, preferences,
                   serialUnique, nextId, now, jar, pc, req, loc, res>>

\* a geolocation row is deleted in the store (no handler deletes one)
AdminDeleteGeolocation ==
    /\ \E g \in geolocations : geolocations' = geolocations \ {g}
    /\ UNCHANGED <<users, devices, relationships, sessions, preferences,
                   serialUnique, nextId, now, jar, pc, req, loc, res>>

\* a user row is deleted in the store; ON DELETE CASCADE removes what it owns
AdminDeleteUser ==
    /\ \E u \in users :
        /\ ~Referenced(u.id)
        /\ users' = users \ {u}
        /\ devices' = {d \in devices : d.patientId # u.id}
        /\ geolocations' =
              {g \in geolocations :
                  \E d \in devices : d.id = g.deviceId /\ d.patientId # u.id}
        /\ relationships' =
              SelectSeq(relationships,
                        LAMBDA r : r.parentId # u.id /\ r.patientId # u.id)
        /\ sessions' = {s \in sessions : s.userId # u.id}
        /\ preferences' = {x \in preferences : x.userId # u.id}
    /\ UNCHANGED <<serialUnique, nextId, now, jar, pc, req, loc, res>>

----------------------------------------------------------------------------
(* Specifications *)

Init ==
    /\ users \in SeedStores
    /\ devices = {}
    /\ geolocations = {}
    /\ relationships = <<>>
    /\ sessions = {}
    /\ preferences = {}
    /\ serialUnique \in BOOLEAN
    /\ nextId = FirstId
    /\ now = 0
    /\ jar = {}
    /\ pc = [p \in Procs |-> "idle"]
    /\ req = [p \in Procs |-> NoReq]
    /\ loc = [p \in Procs |-> NoLoc]
    /\ res = [p \in Procs |-> NoRes]

RegisterStep(p) ==
    \/ RegisterFindExisting(p)
    \/ RegisterFindParent(p)
    \/ TxCreateUser(p)
    \/ TxCreateDevice(p)
    \/ TxCreateGeolocation(p)
    \/ TxCreateRelationship(p)
    \/ TxCreateSession(p)
    \/ RegisterCommit(p)
    \/ RegisterTokenFailure(p)
    \/ TxStoreFailure(p)

LoginStep(p) ==
    \/ \E r \in LoginRequests : LoginBegin(p, r)
    \/ LoginFindUser(p)
    \/ LoginCreateSession(p)

CreateRelationshipStep(p) ==
    \/ \E r \in RelationshipRequests : CreateRelationshipBegin(p, r)
    \/ CreateRelationshipFind(p)
    \/ CreateRelationshipInsert(p)

DeleteRelationshipStep(p) ==
    \/ \E r \in DeleteRequests : DeleteRelationshipBegin(p, r)
    \/ DeleteRelationshipDelete(p)

ReadRelationshipStep(p) ==
    \/ \E r \in ByParentRequests : GetRelationshipsByParentIdBegin(p, r)
    \/ GetRelationshipsByParentIdFindUser(p)
    \/ GetRelationshipsByParentIdList(p)
    \/ \E r \in ByPatientRequests : GetRelationshipsByPatientIdBegin(p, r)
    \/ GetRelationshipsByPatientIdFindUser(p)
    \/ GetRelationshipsByPatientIdList(p)
    \/ \E r \in GetRequests : GetRelationshipBegin(p, r)
    \/ GetRelationshipFind(p)

GeolocationStep(p) ==
    \/ \E r \in IngestRequests : CreateGeolocationBegin(p, r)
    \/ CreateGeolocationFindDevice(p)
    \/ CreateGeolocationInsert(p)
    \/ \E r \in LatestRequests : LatestBegin(p, r)
    \/ LatestFindPatient(p)
    \/ LatestFindDevice(p)
    \/ LatestFindGeolocation(p)

PreferencesStep(p) ==
    \/ \E token \in PresentedTokens : IsLoggedBegin(p, token)
    \/ IsLoggedFindSession(p)
    \/ IsLoggedFindUser(p)
    \/ GetUserPreferences(p)

UpdatePreferencesStep(p) ==
    \/ UpdateUserPreferencesBegin(p)
    \/ UpdateUserPreferencesUpsert(p)

\* the service serving one request at a time
Next ==
    \/ \E r \in CoreRegisterRequests : RegisterBegin("r1", r)
    \/ RegisterStep("r1")
    \/ LoginStep("r1")
    \/ CreateRelationshipStep("r1")
    \/ GeolocationStep("r1")
    \/ PreferencesStep("r1")
    \/ Reset("r1")
    \/ Tick

Spec == Init /\ [][Next]_vars

\* two requests in flight, of the handlers that write under a unique key
NextConcurrent ==
    \E p \in Procs :
        \/ \E r \in CoreRegisterRequests : RegisterBegin(p, r)
        \/ RegisterStep(p)
        \/ CreateRelationshipStep(p)
        \/ Reset(p)

SpecConcurrent == Init /\ [][NextConcurrent]_vars

\* one request at a time in front of a store whose session and user rows an
\* administrator may delete
NextRevoke ==
    \/ LoginStep("r1")
    \/ PreferencesStep("r1")
    \/ Reset("r1")
    \/ Tick
    \/ AdminDeleteSession
    \/ AdminDeleteUser

SpecRevoke == Init /\ [][NextRevoke]_vars

\* the register handler alone, on every body of RegisterRequests
NextRegister ==
    \/ \E r \in RegisterRequests : RegisterBegin("r1", r)
    \/ RegisterStep("r1")
    \/ Reset("r1")

SpecRegister == Init /\ [][NextRegister]_vars

\* registration, creation and deletion of relationships, one request at a time
NextRelationship ==
    \/ \E r \in CoreRegisterRequests : RegisterBegin("r1", r)
    \/ RegisterStep("r1")
    \/ CreateRelationshipStep("r1")
    \/ DeleteRelationshipStep("r1")
    \/ ReadRelationshipStep("r1")
    \/ Reset("r1")

SpecRelationship == Init /\ [][NextRelationship]_vars

\* registration, ingest and the latest-location query, one request at a time,
\* while time passes and geolocation rows may be deleted in the store
NextLocation ==
    \/ \E r \in LocationRegisterRequests : RegisterBegin("r1", r)
    \/ RegisterStep("r1")
    \/ GeolocationStep("r1")
    \/ Reset("r1")
    \/ Tick
    \/ AdminDeleteGeolocation

SpecLocation == Init /\ [][NextLocation]_vars

\* registration and login, one request at a time, while time passes
NextSession ==
    \/ \E r \in CoreRegisterRequests : RegisterBegin("r1", r)
    \/ RegisterStep("r1")
    \/ LoginStep("r1")
    \/ Reset("r1")
    \/ Tick

SpecSession == Init /\ [][NextSession]_vars

\* the session and the token LoginCreateSession makes for user under id
LoginSession(user, id) ==
    [id |-> id, userId |-> user.id, expiresAt |-> now + SessionDurationH]
LoginToken(user, id) ==
    generateToken([id |-> user.id, email |-> user.email,
                   recordType |-> user.recordType,
                   sessionId |-> LoginSession(user, id).id,
                   expiresAt |-> LoginSession(user, id).expiresAt])

\* the state two logins leave: both seeded users hold a session
InitLoggedIn ==
    /\ users = {SeedParent, SeedPatient}
    /\ devices = {}
    /\ geolocations = {}
    /\ relationships = <<>>
    /\ now = 0
    /\ sessions = {LoginSession(SeedParent, FirstId),
                   LoginSession(SeedPatient, FirstId + 1)}
    /\ preferences = {}
    /\ serialUnique = TRUE
    /\ nextId = FirstId + 2
    /\ jar = {LoginToken(SeedParent, FirstId), LoginToken(SeedPatient, FirstId + 1)}
    /\ pc = [p \in Procs |-> "idle"]
    /\ req = [p \in Procs |-> NoReq]
    /\ loc = [p \in Procs |-> NoLoc]
    /\ res = [p \in Procs |-> NoRes]

\* the tokens that pass the middleware, and none
SignedTokens == {NoToken} \cup {FlatToken("valid", x.id, x) : x \in Issued}

\* the store with both seeded users
InitPreferences == Init /\ users = {SeedParent, SeedPatient} /\ serialUnique

\* login and the two preferences routes, one request at a time, on every body
\* of UpdateBodies
NextPreferences ==
    \/ LoginStep("r1")
    \/ PreferencesStep("r1")
    \/ /\ pc["r1"] = "idle"
       /\ \E token \in PresentedTokens : \E body \in UpdateBodies :
             UpdateUserPreferencesEnter("r1", token, body)
    \/ UpdatePreferencesStep("r1")
    \/ Reset("r1")

SpecPreferences == InitPreferences /\ [][NextPreferences]_vars

\* the registrations of the e-mail of a stored user and of a new one
ServiceRegisterRequests ==
    {r \in CoreRegisterRequests : r.email \in {SeedParent.email, "patient@x.com"}}

\* every route of the service, one request at a time
NextService ==
    \/ /\ pc["r1"] = "idle"
       /\ \E r \in ServiceRegisterRequests : RegisterBegin("r1", r)
    \/ RegisterStep("r1")
    \/ LoginStep("r1")
    \/ CreateRelationshipStep("r1")
    \/ DeleteRelationshipStep("r1")
    \/ ReadRelationshipStep("r1")
    \/ GeolocationStep("r1")
    \/ /\ pc["r1"] = "idle"
       /\ \E token \in SignedTokens : IsLoggedBegin("r1", token)
    \/ IsLoggedFindSession("r1")
    \/ IsLoggedFindUser("r1")
    \/ GetUserPreferences("r1")
    \/ /\ pc["r1"] = "idle"
       /\ \E token \in SignedTokens : \E body \in CoreUpdateBodies :
             UpdateUserPreferencesEnter("r1", token, body)
    \/ UpdatePreferencesStep("r1")
    \/ Reset("r1")

SpecService == InitPreferences /\ [][NextService]_vars

\* two requests in flight on the preferences routes
NextPreferencesConcurrent ==
    \E p \in Procs :
        \/ \E token \in SignedTokens : IsLoggedBegin(p, token)
        \/ IsLoggedFindSession(p)
        \/ IsLoggedFindUser(p)
        \/ GetUserPreferences(p)
        \/ \E token \in SignedTokens : \E body \in CoreUpdateBodies :
              UpdateUserPreferencesEnter(p, token, body)
        \/ UpdatePreferencesStep(p)
        \/ Reset(p)

SpecPreferencesConcurrent == InitLoggedIn /\ [][NextPreferencesConcurrent]_vars

----------------------------------------------------------------------------
(* The claims *)

RegisteredUsers == {u \in users : u.id \notin SeedIds}
Finished(p, kind) == pc[p] = "done" /\ req[p].kind = kind
RelationshipRows(rels, parentId, patientId) ==
    {i \in DOMAIN rels : rels[i].parentId = parentId /\ rels[i].patientId = patientId}

\* C1: registration is all-or-nothing.  In every state the tables hold, for
\* every user a register request created, exactly one session of that user
\* and, for a PATIENT, exactly one device with one geolocation and a
\* relationship row; and no session, device or geolocation row is left without
\* its user (no request other than register writes these rows under
\* SpecConcurrent).
C1_RegistrationAtomic ==
    /\ \A u \in RegisteredUsers :
          /\ Cardinality({s \in sessions : s.userId = u.id}) = 1
          /\ u.recordType = "PATIENT" =>
                /\ Cardinality({d \in devices : d.patientId = u.id}) = 1
                /\ \A d \in devices : d.patientId = u.id =>
                      Cardinality({g \in geolocations : g.deviceId = d.id}) = 1
                /\ \E i \in DOMAIN relationships : relationships[i].patientId = u.id
    /\ \A s \in sessions : \E u \in RegisteredUsers : u.id = s.userId
    /\ \A d \in devices : \E u \in RegisteredUsers : u.id = d.patientId
    /\ \A g \in geolocations : \E d \in devices : d.id = g.deviceId

\* a registration has failed on the device insert, after its user insert,
\* while another one was answered 201
C1_Witness ==
    \E p, q \in Procs :
        /\ Finished(p, "register") /\ res[p].status = 500
        /\ res[p].logged = "P2002 Device.serialNumber"
        /\ Finished(q, "register") /\ res[q].status = 201

\* C2: session validation fails closed.  The handler behind isLogged is entered
\* only from the user lookup, with a user row of the token's id in the store;
\* the user lookup only from the session lookup, with a session row of the
\* token's sessionId in the store whose expiresAt is not in the past; the
\* session lookup only with a token that is present, signed and unexpired.  A
\* request whose session row or user row is missing at the lookup is answered
\* 401.
C2_FailClosedGate ==
    [][\A p \in Procs :
        /\ (pc'[p] = "mw_session" /\ pc[p] # "mw_session") =>
              /\ pc[p] = "idle"
              /\ req'[p].token # NoToken
              /\ req'[p].token.sig = "valid"
              /\ now < req'[p].token.exp
        /\ (pc'[p] = "mw_user" /\ pc[p] # "mw_user") =>
              /\ pc[p] = "mw_session"
              /\ \E s \in sessions :
                    s.id = req[p].token.payload.sessionId /\ s.expiresAt >= now
        /\ (pc'[p] = "prefs_get" /\ pc[p] # "prefs_get") =>
              /\ pc[p] = "mw_user"
              /\ \E u \in users : u.id = req[p].token.payload.id
        /\ (pc[p] = "mw_session" /\ pc'[p] # "mw_session"
               /\ ~\E s \in sessions : s.id = req[p].token.payload.sessionId) =>
              pc'[p] = "done" /\ res'[p].status = 401
        /\ (pc[p] = "mw_user" /\ pc'[p] # "mw_user"
               /\ ~\E u \in users : u.id = req[p].token.payload.id) =>
              pc'[p] = "done" /\ res'[p].status = 401
      ]_vars

\* a signed, unexpired token naming a session the service created and whose
\* row has since been deleted was answered 401
C2_Witness ==
    \E p \in Procs :
        /\ Finished(p, "getUserPreferences")
        /\ req[p].token # NoToken
        /\ req[p].token.sig = "valid"
        /\ now < req[p].token.exp
        /\ "sessionId" \in DOMAIN req[p].token.payload
        /\ \E x \in Issued : x.sessionId = req[p].token.payload.sessionId
        /\ ~\E s \in sessions : s.id = req[p].token.payload.sessionId
        /\ res[p].status = 401

\* C3: the token a register or login response sets, presented back while its
\* session row exists with expiresAt in the future and its user exists, passes
\* session validation (the handler answers 200) with that user's id, email,
\* role and sessionId attached to the request.
C3_IssuedTokenAccepted ==
    \A p \in Procs :
        (/\ req[p].kind = "getUserPreferences"
         /\ pc[p] \in {"prefs_get", "done"}
         /\ req[p].token \in jar
         /\ \E s \in sessions :
               s.id = req[p].token.payload.email.sessionId /\ s.expiresAt > now
         /\ \E u \in users : u.id = req[p].token.payload.email.id)
        => IF pc[p] = "done"
           THEN res[p].status = 200
           ELSE loc[p].user =
                   [id |-> req[p].token.payload.email.id,
                    email |-> req[p].token.payload.email.email,
                    recordType |-> req[p].token.payload.email.recordType,
                    sessionId |-> req[p].token.payload.email.sessionId]

\* C4: every relationship row references a parent of role PARENT and a patient
\* of role PATIENT.
C4_RelationshipRoles ==
    \A i \in DOMAIN relationships :
        /\ \E u \in users :
              u.id = relationships[i].parentId /\ u.recordType = "PARENT"
        /\ \E u \in users :
              u.id = relationships[i].patientId /\ u.recordType = "PATIENT"

\* a createRelationship request was answered 201 and the table also holds the
\* row of a registered patient
C4_Witness ==
    /\ \E p \in Procs : Finished(p, "createRelationship") /\ res[p].status = 201
    /\ \E i \in DOMAIN relationships : relationships[i].patientId \notin SeedIds
    /\ \E i \in DOMAIN relationships : relationships[i].patientId \in SeedIds

\* C5: a register request that loses on the unique e-mail of User (it passed
\* the lookup, its insert then met the row of the other request) is answered
\* 409.
C5_ConcurrentDuplicateIs409 ==
    \A p \in Procs :
        (Finished(p, "register") /\ res[p].logged = "P2002 User.email")
        => res[p].status = 409

\* the fields a body must carry (PATIENT) or must not carry (PARENT), as section
\* 4.1 of the specification states the validation
WellFormedBody(r) ==
    IF r.recordType = "PATIENT"
    THEN /\ r.parentEmail # Undefined /\ r.serialNumber \notin {Undefined, ""}
         /\ r.latitude # NoNumber /\ r.longitude # NoNumber
    ELSE /\ r.parentEmail = Undefined /\ r.serialNumber = Undefined
         /\ r.deviceName = Undefined /\ r.latitude = NoNumber
         /\ r.longitude = NoNumber

\* C6: a well-formed register request for an e-mail that a user already holds
\* (one request is served at a time under Spec, so a request that has not
\* created the user and finds it in the table found it there from its start;
\* a request answered 201, or 500 after its transaction, may have created it)
\* is answered 409, and one user holds that e-mail.
C6_SequentialDuplicateIs409 ==
    \A p \in Procs :
        (/\ Finished(p, "register")
         /\ WellFormedBody(req[p])
         /\ res[p].status \notin {201, 500}
         /\ \E u \in users : u.email = req[p].email)
        => /\ res[p].status = 409
           /\ Cardinality({u \in users : u.email = req[p].email}) = 1

\* C7: there is at most one relationship row per (parentId, patientId), and a
\* createRelationship request that reaches the insert is answered 201, adding
\* its row, when the table holds no row of its pair, and 409, adding nothing,
\* when it holds one; it is never answered 500.
C7_OneRowPerPair ==
    /\ [](\A i, j \in DOMAIN relationships :
             i # j => relationships[i] # relationships[j])
    /\ [][\A p \in Procs :
            (pc[p] = "rel_create" /\ pc'[p] = "done") =>
                IF RelationshipRows(relationships, req[p].parentId,
                                    req[p].patientId) = {}
                THEN /\ res'[p].status = 201
                     /\ relationships' = Append(relationships,
                            [parentId |-> req[p].parentId,
                             patientId |-> req[p].patientId])
                ELSE /\ res'[p].status = 409
                     /\ relationships' = relationships
         ]_vars

\* two createRelationship requests for the same pair have finished, one with
\* 201 and one with 409, and the table holds one row of the pair
C7_Witness ==
    \E p, q \in Procs :
        /\ Finished(p, "createRelationship") /\ Finished(q, "createRelationship")
        /\ req[p].parentId = req[q].parentId /\ req[p].patientId = req[q].patientId
        /\ res[p].status = 201 /\ res[q].status = 409
        /\ Cardinality(RelationshipRows(relationships, req[p].parentId,
                                        req[p].patientId)) = 1

\* C8: a PARENT register request is rejected by the validation exactly when
\* it supplies a patient-only field.
C8_ParentRejectedIffPatientField ==
    \A p \in Procs :
        (Finished(p, "register") /\ req[p].recordType = "PARENT")
        => ((res[p].status = 400 /\ res[p].message = "Validation failed")
            <=> \/ req[p].parentEmail # Undefined
                \/ req[p].serialNumber # Undefined
                \/ req[p].deviceName # Undefined
                \/ req[p].latitude # NoNumber
                \/ req[p].longitude # NoNumber)

\* C9: on the empty store, the first request of the end-to-end sequence,
\* register PARENT parent@x.com, is answered 201 and creates the user (the
\* later steps rest on it).
C9_EndToEnd ==
    \A p \in Procs :
        (/\ Finished(p, "register")
         /\ req[p].email = "parent@x.com"
         /\ req[p].recordType = "PARENT"
         /\ WellFormedBody(req[p])
         /\ users \subseteq {u \in users : u.email = "parent@x.com"}
         /\ Cardinality(users) <= 1
         /\ SeedParent \notin users)
        => /\ res[p].status = 201
           /\ \E u \in users : u.email = "parent@x.com" /\ u.recordType = "PARENT"

\* C10: a PATIENT register request that omits parentEmail, serialNumber,
\* latitude or longitude is answered 400 by the step that receives it, and
\* that step changes no table.
C10_PatientMissingFieldIs400 ==
    [][\A p \in Procs :
        (/\ pc[p] = "idle" /\ pc'[p] # "idle"
         /\ req'[p].kind = "register"
         /\ req'[p].recordType = "PATIENT"
         /\ \/ req'[p].parentEmail = Undefined
            \/ req'[p].serialNumber = Undefined
            \/ req'[p].latitude = NoNumber
            \/ req'[p].longitude = NoNumber)
        => /\ pc'[p] = "done"
           /\ res'[p].status = 400
           /\ store' = store
      ]_vars

\* a PATIENT request with every field but the latitude was answered 400
C10_Witness ==
    \E p \in Procs :
        /\ Finished(p, "register")
        /\ req[p].recordType = "PATIENT"
        /\ req[p].parentEmail = "parent@x.com"
        /\ req[p].serialNumber = "SN1"
        /\ req[p].latitude = NoNumber
        /\ req[p].longitude # NoNumber
        /\ res[p].status = 400
        /\ SeedParent \in users

\* the rows a registration answered 201 adds for a PATIENT: one user, one
\* device of that user, one geolocation on that device, the relationship with
\* the resolved parent, one session of that user
AddsPatientRows(r) ==
    \E u \in users' \ users :
        /\ users' = users \cup {u}
        /\ u.recordType = "PATIENT" /\ u.email = r.email
        /\ \E d \in devices' \ devices :
              /\ devices' = devices \cup {d}
              /\ d.patientId = u.id /\ d.serialNumber = r.serialNumber
              /\ \E g \in geolocations' \ geolocations :
                    /\ geolocations' = geolocations \cup {g}
                    /\ g.deviceId = d.id
                    /\ <<g.latitude>> = r.latitude /\ <<g.longitude>> = r.longitude
        /\ \E parent \in users :
              /\ parent.email = r.parentEmail /\ parent.recordType = "PARENT"
              /\ relationships' = Append(relationships,
                     [parentId |-> parent.id, patientId |-> u.id])
        /\ \E s \in sessions' \ sessions :
              sessions' = sessions \cup {s} /\ s.userId = u.id

\* the rows a registration answered 201 adds for a PARENT: one user, one session
AddsParentRows(r) ==
    /\ \E u \in users' \ users :
        /\ users' = users \cup {u}
        /\ u.recordType = "PARENT" /\ u.email = r.email
        /\ \E s \in sessions' \ sessions :
              sessions' = sessions \cup {s} /\ s.userId = u.id
    /\ devices' = devices /\ geolocations' = geolocations
    /\ relationships' = relationships

\* C11: a register request that ends, other than by a validation error (400),
\* a lookup error (404, 409) or an internal error (500), ends with 201 in the
\* step that adds its rows: for a PATIENT one user, one device with the serial
\* number, one geolocation with the coordinates, one relationship with the
\* resolved parent and one session; for a PARENT whose body carries no
\* patient-only field (the validation of section 4.1 lets it pass) one user
\* and one session and nothing else.
C11_RegistrationCreatesItsRows ==
    [][\A p \in Procs :
        (pc[p] # "done" /\ pc'[p] = "done" /\ req'[p].kind = "register") =>
            /\ (req'[p].recordType = "PATIENT"
                    /\ res'[p].status \notin {400, 404, 409, 500}) =>
                  res'[p].status = 201 /\ AddsPatientRows(req'[p])
            /\ (req'[p].recordType = "PARENT" /\ WellFormedBody(req'[p])
                    /\ res'[p].status \notin {404, 409, 500}) =>
                  res'[p].status = 201 /\ AddsParentRows(req'[p])
      ]_vars

\* C12: a PATIENT register request that reaches the lookup of its parent (its
\* body is valid and its e-mail is new) is answered 404 by that step when no
\* user holds parentEmail, and 400 when the user that holds it has role
\* PATIENT; in both cases the step changes no table (and no earlier step of
\* the request has: the first write of register is inside its transaction).
C12_UnresolvedOrWrongRoleParent ==
    [][\A p \in Procs :
        (pc[p] = "reg_parent" /\ pc'[p] # "reg_parent") =>
            /\ (~\E u \in users : u.email = req[p].parentEmail) =>
                  /\ pc'[p] = "done" /\ res'[p].status = 404
                  /\ store' = store
            /\ (\E u \in users :
                   u.email = req[p].parentEmail /\ u.recordType = "PATIENT") =>
                  /\ pc'[p] = "done" /\ res'[p].status = 400
                  /\ store' = store
      ]_vars

\* a PATIENT request with a new e-mail, naming the e-mail of a stored PATIENT
\* as its parent, was answered 400
C12_Witness ==
    \E p \in Procs :
        /\ Finished(p, "register")
        /\ req[p].recordType = "PATIENT"
        /\ \E u \in users : u.email = req[p].parentEmail /\ u.recordType = "PATIENT"
        /\ ~\E u \in users : u.email = req[p].email
        /\ res[p].status = 400
        /\ res[p].message = "The provided parent email does not belong to a PARENT account"

\* C13: the step in which register answers 500 changes no table (and no
\* earlier step of the request has: the rows of the request reach the tables
\* only when its transaction commits).
C13_NoPartialStateOn500 ==
    [][\A p \in Procs :
        (/\ pc[p] # "done" /\ pc'[p] = "done"
         /\ req'[p].kind = "register"
         /\ res'[p].status = 500)
        => store' = store
      ]_vars

\* C14: every 401 session validation answers to a request that presented a
\* token clears the authToken cookie.
C14_Every401ClearsCookie ==
    \A p \in Procs :
        (/\ Finished(p, "getUserPreferences")
         /\ req[p].token # NoToken
         /\ res[p].status = 401)
        => res[p].cleared

\* C15: a login whose e-mail no user holds and a login whose password is not
\* the one of the user that holds its e-mail are answered alike, 401 with the
\* message 'Invalid email or password' and nothing else, and the step changes
\* no table.
C15_LoginFailuresAlike ==
    [][\A p \in Procs :
        (/\ pc[p] = "login_find" /\ pc'[p] # "login_find"
         /\ \/ ~\E u \in users : u.email = req[p].email
            \/ \E u \in users :
                  u.email = req[p].email /\ u.password # bcryptHash(req[p].password))
        => /\ pc'[p] = "done"
           /\ res'[p] = [status |-> 401, message |-> "Invalid email or password",
                         cookie |-> NoToken, cleared |-> FALSE, body |-> NoRow,
                         logged |-> ""]
           /\ store' = store
      ]_vars

\* a login with the e-mail of a registered user and another password was
\* answered 401, the sessions of that user being the one of its registration
C15_Witness ==
    \E p \in Procs :
        /\ Finished(p, "login")
        /\ res[p].status = 401
        /\ \E u \in RegisteredUsers :
              /\ u.email = req[p].email
              /\ u.password # bcryptHash(req[p].password)
              /\ Cardinality({s \in sessions : s.userId = u.id}) = 1

C17_DeleteByPair ==
    [][\A p \in Procs :
        (pc[p] = "rel_delete" /\ pc'[p] # "rel_delete") =>
            LET held == {i \in DOMAIN relationships :
                            /\ relationships[i].parentId = req[p].parentId
                            /\ relationships[i].patientId = req[p].patientId}
            IN  /\ pc'[p] = "done"
                /\ held = {} => res'[p].status = 404 /\ store' = store
                /\ held # {} =>
                      /\ res'[p].status = 204
                      /\ Len(relationships') = Len(relationships) - 1
                      /\ \A i \in DOMAIN relationships \ held :
                            \E j \in DOMAIN relationships' :
                                relationships'[j] = relationships[i]
                      /\ \A j \in DOMAIN relationships' :
                            ~(/\ relationships'[j].parentId = req[p].parentId
                              /\ relationships'[j].patientId = req[p].patientId)
                      /\ <<users, devices, geolocations, sessions, preferences>>' =
                            <<users, devices, geolocations, sessions, preferences>>
      ]_vars

\* the pair of a parent with two patients was deleted with 204, and the row of
\* the parent with the other patient is still in the table
C17_Witness ==
    \E p \in Procs :
        /\ Finished(p, "deleteRelationship") /\ res[p].status = 204
        /\ RelationshipRows(relationships, req[p].parentId, req[p].patientId) = {}
        /\ \E i \in DOMAIN relationships :
              /\ relationships[i].parentId = req[p].parentId
              /\ relationships[i].patientId # req[p].patientId

\* C18: the latest-location query answers 404 'Patient not found.' when no
\* user of role PATIENT has the id, 404 'Device not found.' when the patient
\* has no device, 404 'No geolocation data found for device.' when the device
\* it resolved, one of greatest createdAt among the patient's, has no
\* geolocation, and otherwise 200 with a geolocation of that device of greatest
\* timestamp; no step of the query changes a table.
C18_LatestLocation ==
    [][\A p \in Procs :
        /\ (pc[p] = "latest_patient" /\ pc'[p] # "latest_patient") =>
              /\ IF \E u \in users :
                       u.id = req[p].patientId /\ u.recordType = "PATIENT"
                 THEN pc'[p] = "latest_device"
                 ELSE /\ pc'[p] = "done" /\ res'[p].status = 404
                      /\ res'[p].message = "Patient not found."
              /\ store' = store
        /\ (pc[p] = "latest_device" /\ pc'[p] # "latest_device") =>
              /\ IF \E d \in devices : d.patientId = req[p].patientId
                 THEN /\ pc'[p] = "latest_geolocation"
                      /\ \E d \in devices :
                            /\ d.id = loc'[p].deviceId
                            /\ d.patientId = req[p].patientId
                            /\ \A e \in devices :
                                  e.patientId = req[p].patientId =>
                                      e.createdAt <= d.createdAt
                 ELSE /\ pc'[p] = "done" /\ res'[p].status = 404
                      /\ res'[p].message = "Device not found."
              /\ store' = store
        /\ (pc[p] = "latest_geolocation" /\ pc'[p] # "latest_geolocation") =>
              /\ pc'[p] = "done"
              /\ IF \E g \in geolocations : g.deviceId = loc[p].deviceId
                 THEN /\ res'[p].status = 200
                      /\ res'[p].body \in geolocations
                      /\ res'[p].body.deviceId = loc[p].deviceId
                      /\ \A g \in geolocations :
                            g.deviceId = loc[p].deviceId =>
                                g.timestamp <= res'[p].body.timestamp
                 ELSE /\ res'[p].status = 404
                      /\ res'[p].message = "No geolocation data found for device."
              /\ store' = store
      ]_vars

\* the query was answered 200 with the point ingested a day after the
\* registration, the device also holding the point of the registration
C18_Witness ==
    \E p \in Procs :
        /\ Finished(p, "getLatestGeolocation") /\ res[p].status = 200
        /\ res[p].body \in geolocations
        /\ \E g \in geolocations :
              /\ g.deviceId = res[p].body.deviceId
              /\ g.timestamp < res[p].body.timestamp
        /\ \E d \in devices :
              d.id = res[p].body.deviceId /\ d.patientId = req[p].patientId

\* C19: an ingest whose latitude is outside [-90, 90] or whose longitude is
\* outside [-180, 180] is answered 400 by the step that receives it, whatever
\* its serial number, and that step changes no table.
C19_OutOfRangeIngestIs400 ==
    [][\A p \in Procs :
        (/\ pc[p] = "idle" /\ pc'[p] # "idle"
         /\ req'[p].kind = "createGeolocation"
         /\ \/ req'[p].latitude < -90 \/ req'[p].latitude > 90
            \/ req'[p].longitude < -180 \/ req'[p].longitude > 180)
        => /\ pc'[p] = "done"
           /\ res'[p].status = 400
           /\ store' = store
      ]_vars

\* an ingest with latitude 91, for the serial number of a stored device, was
\* answered 400
C19_Witness ==
    \E p \in Procs :
        /\ Finished(p, "createGeolocation")
        /\ req[p].latitude > 90
        /\ req[p].longitude >= -180 /\ req[p].longitude <= 180
        /\ \E d \in devices : d.serialNumber = req[p].serialNumber
        /\ res[p].status = 400

\* C20: every stored geolocation has its latitude in [-90, 90] and its
\* longitude in [-180, 180].
C20_StoredCoordinatesInRange ==
    \A g \in geolocations :
        /\ g.latitude >= -90 /\ g.latitude <= 90
        /\ g.longitude >= -180 /\ g.longitude <= 180

\* C21: a read of the preferences by an authenticated user that has no
\* UserPreferences row is answered 200 with preferences null (no row in the
\* body), and the step leaves every table as it was.
C21_NoRowReadsNull ==
    [][\A p \in Procs :
        (/\ pc[p] = "prefs_get" /\ pc'[p] # "prefs_get"
         /\ ~\E x \in preferences : x.userId = loc[p].user.id)
        => /\ pc'[p] = "done"
           /\ res'[p].status = 200
           /\ res'[p].message = "preferences: null"
           /\ res'[p].body = NoRow
           /\ store' = store]_vars

\* an authenticated read by a user without a row was answered 200 with null
C21_Witness ==
    \E p \in Procs :
        /\ Finished(p, "getUserPreferences")
        /\ res[p].status = 200
        /\ res[p].message = "preferences: null"
        /\ req[p].token.payload.id \in {u.id : u \in users}
        /\ ~\E x \in preferences : x.userId = req[p].token.payload.id

\* C22: a valid preferences update of user u leaves exactly one row of u: a
\* row carrying the supplied fields when u had none, and otherwise u's row with
\* the supplied fields overwritten and every other field as it was; and in
\* every reachable state, two requests of one user in flight included, no user
\* has two UserPreferences rows.
C22_UpsertOneRowPerUser ==
    /\ [](\A x \in preferences : \A y \in preferences :
              x.userId = y.userId => x = y)
    /\ [][\A p \in Procs :
            (pc[p] = "prefs_upsert" /\ pc'[p] # "prefs_upsert") =>
                LET u == loc[p].user.id
                    data == req[p].body
                    old == {x \in preferences : x.userId = u}
                    new == {x \in preferences' : x.userId = u}
                IN  /\ Cardinality(new) = 1
                    /\ \A n \in new :
                          /\ \A k \in DOMAIN data : n[k] = data[k]
                          /\ \A o \in old :
                                \A k \in PreferenceFields \ DOMAIN data :
                                    n[k] = o[k]
                    /\ \A x \in preferences : x.userId # u => x \in preferences'
                    /\ res'[p].status = 200]_vars

\* two updates of one user, one of the font size and one of the theme, were
\* both answered 200, and the user's row carries both
C22_Witness ==
    /\ Finished("r1", "updateUserPreferences")
    /\ Finished("r2", "updateUserPreferences")
    /\ res["r1"].status = 200
    /\ res["r2"].status = 200
    /\ req["r1"].token.payload.id = req["r2"].token.payload.id
    /\ DOMAIN req["r1"].body = {"fontSize"}
    /\ DOMAIN req["r2"].body = {"theme"}
    /\ res["r1"].body.theme = <<>>
    /\ \E x \in preferences :
          /\ x.userId = req["r1"].token.payload.id
          /\ x.fontSize = req["r1"].body["fontSize"]
          /\ x.theme = req["r2"].body["theme"]

\* C23: the session a registration creates expires 24 hours after its creation
\* for a PARENT and 7 x 24 hours after it for a PATIENT; the session a login
\* creates expires 24 hours after its creation whatever the role of the user.
C23_SessionExpiry ==
    /\ [](/\ RegisterSessionDuration(PARENT) = 24
          /\ RegisterSessionDuration(PATIENT) = 7 * 24)
    /\ [][\A p \in Procs :
            /\ (pc[p] = "tx_session" /\ pc'[p] = "tx_commit") =>
                  /\ Cardinality(loc'[p].tx.sessions) = 1
                  /\ \A s \in loc'[p].tx.sessions :
                        s.expiresAt = now + (IF req[p].recordType = PARENT
                                             THEN 24 ELSE 7 * 24)
            /\ (pc[p] = "tx_commit" /\ pc'[p] # "tx_commit") =>
                  sessions' \ sessions \subseteq loc[p].tx.sessions
            /\ (pc[p] = "login_session" /\ pc'[p] # "login_session") =>
                  \A s \in sessions' \ sessions : s.expiresAt = now + 24
         ]_vars

\* a PATIENT registered at time 0 logs in a day later: the session of its
\* registration expires at 168, the one of the login at 48
C23_Witness ==
    \E p \in Procs :
        /\ Finished(p, "login") /\ res[p].status = 200
        /\ now = 24
        /\ \E u \in RegisteredUsers :
              /\ u.email = req[p].email
              /\ u.recordType = PATIENT
              /\ \E s \in sessions : s.userId = u.id /\ s.expiresAt = 168
              /\ \E s \in sessions : s.userId = u.id /\ s.expiresAt = 48

\* C24: createRelationship rejects, adding no row: with 400 a request whose
\* parentId equals its patientId, before any lookup (whether or not the id is
\* that of a user); with 404 a request one of whose ids is the id of no user,
\* the parent's being reported before the patient's and both before any role;
\* with 400 a request whose parent is not a PARENT or whose patient is not a
\* PATIENT.  A parentId that is the id of a PATIENT is answered 400.
C24_CreateRelationshipRejects ==
    [][\A p \in Procs :
        /\ (pc[p] = "idle" /\ pc'[p] # "idle"
            /\ req'[p].kind = "createRelationship"
            /\ req'[p].parentId = req'[p].patientId) =>
              /\ pc'[p] = "done"
              /\ res'[p].status = 400
              /\ res'[p].message = "Parent ID and Patient ID cannot be the same."
              /\ store' = store
        /\ (pc[p] = "rel_find" /\ pc'[p] # "rel_find") =>
              LET parents == {u \in users : u.id = req[p].parentId}
                  patients == {u \in users : u.id = req[p].patientId}
              IN  /\ store' = store
                  /\ parents = {} =>
                        /\ pc'[p] = "done"
                        /\ res'[p].status = 404
                        /\ res'[p].message = "User (parent) not found."
                  /\ (parents # {} /\ patients = {}) =>
                        /\ pc'[p] = "done"
                        /\ res'[p].status = 404
                        /\ res'[p].message = "User (patient) not found."
                  /\ (patients # {} /\ \E u \in parents : u.recordType # PARENT) =>
                        /\ pc'[p] = "done"
                        /\ res'[p].status = 400
                        /\ res'[p].message = "User is not of type PARENT."
                  /\ (/\ \E u \in parents : u.recordType = PARENT
                      /\ \E u \in patients : u.recordType # PATIENT) =>
                        /\ pc'[p] = "done"
                        /\ res'[p].status = 400
                        /\ res'[p].message = "User is not of type PATIENT."
      ]_vars

\* a request naming the seeded PATIENT as the parent of another user was
\* answered 400
C24_Witness ==
    \E p \in Procs :
        /\ Finished(p, "createRelationship")
        /\ req[p].parentId = SeedPatient.id
        /\ SeedPatient \in users
        /\ \E u \in users : u.id = req[p].patientId /\ u.id # SeedPatient.id
        /\ res[p].status = 400
        /\ res[p].message = "User is not of type PARENT."

\* C25: the geolocation history is append-only.  The device lookup of a valid
\* ingest retains, among the devices that carry its serial number, one that
\* was created last, and answers 404 leaving every table as it was when no
\* device carries it; the insert that follows adds exactly one row, new, of
\* the retained device and with the coordinates of the request, to the rows
\* there were; and no step of a handler removes or changes a Geolocation row.
C25_GeolocationAppendOnly ==
    [][\A p \in Procs :
        /\ (pc[p] = "geo_device" /\ pc'[p] # "geo_device") =>
              LET found == {d \in devices : d.serialNumber = req[p].serialNumber}
              IN  /\ store' = store
                  /\ found = {} => (pc'[p] = "done" /\ res'[p].status = 404)
                  /\ found # {} =>
                        /\ pc'[p] = "geo_create"
                        /\ \E d \in found :
                              /\ d.id = loc'[p].deviceId
                              /\ \A e \in found : e.createdAt <= d.createdAt
        /\ (pc[p] = "geo_create" /\ pc'[p] # "geo_create"
            /\ \E d \in devices : d.id = loc[p].deviceId) =>
              /\ res'[p].status = 201
              /\ \E g \in geolocations' :
                    /\ \A h \in geolocations : h.id # g.id
                    /\ geolocations' = geolocations \cup {g}
                    /\ g.deviceId = loc[p].deviceId
                    /\ g.latitude = req[p].latitude
                    /\ g.longitude = req[p].longitude
              /\ <<users, devices, relationships, sessions, preferences>>' =
                     <<users, devices, relationships, sessions, preferences>>
        /\ pc'[p] # pc[p] => geolocations \subseteq geolocations'
      ]_vars

\* an ingest was answered 201: its row is in the table next to the row the
\* registration of the device had stored
C25_Witness ==
    \E p \in Procs :
        /\ Finished(p, "createGeolocation")
        /\ res[p].status = 201
        /\ res[p].body \in geolocations
        /\ \E g \in geolocations :
              g.deviceId = res[p].body.deviceId /\ g.id # res[p].body.id

\* C26: no step of the relationship operations (create, list by parent, list
\* by patient, get one, delete one) creates, changes or deletes a row of User,
\* Device, Geolocation, UserSession or UserPreferences, and no step of the two
\* lists and of the get changes a row of any table.
C26_RelationshipOperationsFrame ==
    [][\A p \in Procs :
        (pc'[p] # pc[p] /\ pc[p] # "done") =>
            /\ req'[p].kind \in {"createRelationship", "deleteRelationship",
                                 "getRelationshipsByParentId",
                                 "getRelationshipsByPatientId", "getRelationship"}
               => <<users, devices, geolocations, sessions, preferences>>' =
                      <<users, devices, geolocations, sessions, preferences>>
            /\ req'[p].kind \in {"getRelationshipsByParentId",
                                 "getRelationshipsByPatientId", "getRelationship"}
               => store' = store
      ]_vars

\* the relationship of a registered patient, which has a device, a
\* geolocation and a session, was deleted (204), and the patient is still
\* listed among the users
C26_Witness ==
    \E p \in Procs :
        /\ Finished(p, "deleteRelationship")
        /\ res[p].status = 204
        /\ \E u \in RegisteredUsers :
              /\ u.id = req[p].patientId
              /\ \E d \in devices : d.patientId = u.id
              /\ \E s \in sessions : s.userId = u.id
        /\ geolocations # {}

\* the bodies C27 is about: empty, with a key outside the five fields, with a
\* fontSize outside 8..72, a batterySaverLevel outside 0..3, a theme of more
\* than 20 characters, or a language of fewer than 2 or more than 10
C27_Rejected(body) ==
    \/ DOMAIN body = {}
    \/ \E k \in DOMAIN body :
          k \notin {"fontSize", "batterySaverLevel", "theme", "language",
                    "notificationsEnabled"}
    \/ \E k \in DOMAIN body \cap {"fontSize"} :
          body[k] # <<>> /\ (body[k][1] < 8 \/ body[k][1] > 72)
    \/ \E k \in DOMAIN body \cap {"batterySaverLevel"} :
          body[k] # <<>> /\ (body[k][1] < 0 \/ body[k][1] > 3)
    \/ \E k \in DOMAIN body \cap {"theme"} :
          body[k] # <<>> /\ Len(body[k][1]) > 20
    \/ \E k \in DOMAIN body \cap {"language"} :
          body[k] # <<>> /\ (Len(body[k][1]) < 2 \/ Len(body[k][1]) > 10)

C28_RoleImmutable ==
    [][\A u \in users : \A v \in users' :
          v.id = u.id => v.recordType = u.recordType]_vars

\* a relationship request naming the seeded PATIENT as parent and a registered
\* patient was refused, both being still PATIENT
C28_Witness ==
    \E p \in Procs :
        /\ Finished(p, "createRelationship")
        /\ res[p].status = 400
        /\ req[p].parentId = SeedPatient.id
        /\ \E u \in RegisteredUsers : u.id = req[p].patientId /\ u.recordType = PATIENT
        /\ \E u \in users : u.id = SeedPatient.id /\ u.recordType = PATIENT
        /\ sessions # {}

\* C29: the preferences routes act on the row of the caller only.  The
\* identity the middleware hands to the handler is the one of the validated
\* token; an update made under identity A returns A's row and leaves the rows
\* of every other user as they were, creating none for them; a read made
\* under identity A changes no table and returns null or the row of A.
C29_OwnRowOnly ==
    [][\A p \in Procs :
        LET A == req[p].token.payload.id IN
        /\ (pc[p] = "mw_user" /\ pc'[p] \in {"prefs_get", "prefs_update"}) =>
              loc'[p].user.id = A
        /\ (pc[p] = "prefs_upsert" /\ pc'[p] # "prefs_upsert") =>
              /\ loc[p].user.id = A
              /\ \A x \in preferences \cup preferences' :
                    x.userId # A => (x \in preferences /\ x \in preferences')
              /\ res'[p].body \in preferences'
              /\ res'[p].body.userId = A
        /\ (pc[p] = "prefs_get" /\ pc'[p] # "prefs_get") =>
              /\ loc[p].user.id = A
              /\ store' = store
              /\ \/ res'[p].body = NoRow
                 \/ res'[p].body \in preferences /\ res'[p].body.userId = A
      ]_vars

\* a user set its font size while another user has a row without one: that
\* row is as it was
C29_Witness ==
    \E p \in Procs :
        /\ Finished(p, "updateUserPreferences")
        /\ res[p].status = 200
        /\ DOMAIN req[p].body = {"fontSize"}
        /\ req[p].body["fontSize"] # <<>>
        /\ \E y \in preferences :
              /\ y.userId # req[p].token.payload.id
              /\ y.fontSize = <<>>
              /\ y.theme # <<>>

====
